---------------------------- MODULE Spec2Model ----------------------------
(***************************************************************************)
(* A model of the SPH code generator of cgsph.py: the equation-set         *)
(* normalizer (check_equations), the grouping builder (_make_group), the   *)
(* declaration checker (_check_and_get_variables), the array-dependency    *)
(* resolver, the SourceCode buffer and the emitter (_get_body, generate).  *)
(*                                                                         *)
(* Representation of Python values:                                        *)
(*   - a str that the code only formats, compares or uses as a dict key is *)
(*     a sequence of word tokens (a declaration) or of characters (an      *)
(*     array token, a loop fragment);                                      *)
(*   - a dict returned by cython_code() is a function whose DOMAIN is the  *)
(*     set of keys present: d.get(k) is None exactly when k is not in the  *)
(*     DOMAIN;                                                             *)
(*   - a text whose lines come out of a Python 2 set (no order defined) is *)
(*     a bag of lines; where the code iterates a Python 2 dict and the     *)
(*     order shows in the result, the order is taken from the variable     *)
(*     hashorder, which may be any permutation of the keys.                *)
(***************************************************************************)
EXTENDS Integers, Sequences, FiniteSets, Bags, TLC

VARIABLES
    equations,        \* the list handed to SPHEval(particle_arrays, equations, ...)
    kernel,           \* self.kernel.__class__.__name__, as characters
    hashorder,        \* iteration order of the Python 2 dicts: names, decls, srcs
    pc,               \* "start", "constructed", "generated" or "raised"
    equation_groups,  \* self.equation_groups
    groups,           \* self.groups
    fp,               \* the output sink: the texts written to it, in order
    raised            \* the exception that ended the run, or NoError

vars == <<equations, kernel, hashorder, pc, equation_groups, groups, fp, raised>>

-----------------------------------------------------------------------------
(* Generic helpers for Python lists, sets and dicts.                       *)

Range(s) == {s[i] : i \in DOMAIN s}

RECURSIVE Concat(_)
\* list.extend over a list of lists
Concat(ss) == IF ss = <<>> THEN <<>> ELSE Head(ss) \o Concat(Tail(ss))

Perms(S) ==
    {p \in [1..Cardinality(S) -> S] : \A i, j \in DOMAIN p : p[i] = p[j] => i = j}

\* The keys S of a Python 2 dict in the order the dict yields them.
KeysInOrder(S, order) == SelectSeq(order, LAMBDA k : k \in S)

RECURSIVE BagOfSeq(_)
\* the lines of a list, order forgotten, multiplicity kept
BagOfSeq(s) == IF s = <<>> THEN EmptyBag ELSE BagOfSeq(Tail(s)) (+) SetToBag({Head(s)})

\* str as characters
Chars_d_ == <<"d", "_">>
Chars_s_ == <<"s", "_">>
startswith(s, prefix) ==
    /\ Len(s) >= Len(prefix)
    /\ SubSeq(s, 1, Len(prefix)) = prefix

-----------------------------------------------------------------------------
(* Variable and Temporary descriptors (cgsph.py 34-57).                    *)

\* Python values used as defaults: the type of the value and what
\* '{0}'.format(value) prints for it.
PyNone  == [py |-> "NoneType", text |-> "None"]
Float0  == [py |-> "float", text |-> "0.0"]
Float1  == [py |-> "float", text |-> "1.0"]
Str0    == [py |-> "str", text |-> "0.0"]

\* '{0}'.format(v)
Format(v) == v.text

\* Variable.__init__; kind is the class, "Variable" or "Temporary".
NewVariable(kind, type, name, default) ==
    [kind |-> kind, type |-> type, name |-> name, default |-> default,
     declare |-> IF default # PyNone
                 THEN <<"cdef", type, name, "=", Format(default)>>
                 ELSE <<"cdef", type, name>>,
     initialize |-> IF default # PyNone
                    THEN <<name, "=", Format(default)>>
                    ELSE <<>>]

Variable(type, name, default) == NewVariable("Variable", type, name, default)
Temporary(type, name, default) == NewVariable("Temporary", type, name, default)

-----------------------------------------------------------------------------
(* Equation and Group objects (cgsph.py 19-29).                            *)

\* An Equation object: id is the object's identity, cls its class name,
\* code what its cython_code() returns.
Equation(id, cls, dest, sources, code) ==
    [isGroup |-> FALSE, id |-> id, cls |-> cls, dest |-> dest,
     sources |-> sources, code |-> code]

Group(eqs) == [isGroup |-> TRUE, equations |-> eqs]

\* key in code / code.get(key) is not None
Has(code, key) == key \in DOMAIN code

\* code.get(key, default)
Get(code, key, default) == IF Has(code, key) THEN code[key] ELSE default

FragmentKeys == {"variables", "temporaries", "arrays", "loop", "post", "helper"}

-----------------------------------------------------------------------------
(* check_equations (cgsph.py 161-168).                                     *)

NoError == [exc |-> "none"]

ValueError == [exc |-> "ValueError"]

check_equations_wraps_each(eqs) ==
    LET only_groups == SelectSeq(eqs, LAMBDA x : x.isGroup)
    IN  IF Len(only_groups) > 0 /\ Len(only_groups) # Len(eqs)
        THEN [raised |-> ValueError, value |-> <<>>]
        ELSE IF Len(only_groups) = 0
             THEN [raised |-> NoError,
                   value |-> [i \in DOMAIN eqs |-> Group(<<eqs[i]>>)]]
             ELSE [raised |-> NoError, value |-> eqs]

\* Returns the list of Groups, or the exception raised.
check_equations(eqs) ==
    LET only_groups == SelectSeq(eqs, LAMBDA x : x.isGroup)
    IN  IF Len(only_groups) > 0 /\ Len(only_groups) # Len(eqs)
        THEN [raised |-> ValueError, value |-> <<>>]
        ELSE IF Len(only_groups) = 0
             THEN [raised |-> NoError, value |-> <<Group(eqs)>>]
             ELSE [raised |-> NoError, value |-> eqs]

-----------------------------------------------------------------------------
(* SPHEval._make_group (cgsph.py 222-238).                                 *)

RECURSIVE dest_list_of(_, _)
\* the first loop: the dests in first-occurrence order
dest_list_of(eqs, dest_list) ==
    IF eqs = <<>> THEN dest_list
    ELSE dest_list_of(Tail(eqs),
                      IF Head(eqs).dest \in Range(dest_list)
                      THEN dest_list
                      ELSE Append(dest_list, Head(eqs).dest))

\* sources = defaultdict(list) filled from every equation of the group:
\* sources[src].append(equation) for src in equation.sources
sources_of(eqs) ==
    LET srcs == UNION {Range(eqs[i].sources) : i \in DOMAIN eqs}
        RECURSIVE times(_, _)
        \* how often src occurs in a sources list
        times(ss, src) ==
            IF ss = <<>> THEN <<>>
            ELSE (IF Head(ss) = src THEN <<src>> ELSE <<>>) \o times(Tail(ss), src)
        RECURSIVE fill(_, _)
        fill(es, src) ==
            IF es = <<>> THEN <<>>
            ELSE [i \in DOMAIN times(Head(es).sources, src) |-> Head(es)]
                 \o fill(Tail(es), src)
    IN  [src \in srcs |-> fill(eqs, src)]

_make_group_filtered_by_dest(group) ==
    LET eqs == group.equations
        dest_list == dest_list_of(eqs, <<>>)
    IN  [keys |-> dest_list,
         map |-> [dest \in Range(dest_list) |->
                    sources_of(SelectSeq(eqs, LAMBDA e : e.dest = dest))]]

\* An OrderedDict: its keys in insertion order and its mapping.
_make_group(group) ==
    LET eqs == group.equations
        dest_list == dest_list_of(eqs, <<>>)
    IN  [keys |-> dest_list,
         map |-> [dest \in Range(dest_list) |-> sources_of(eqs)]]


-----------------------------------------------------------------------------
(* SPHEval._check_and_get_variables (cgsph.py 257-301).                    *)

\* equations = []; for g in self.equation_groups: equations.extend(g.equations)
all_equations(egroups) == Concat([i \in DOMAIN egroups |-> egroups[i].equations])

\* The descriptors the equations list under key, in the order of the loop
\* at 267-281, each with the class name of the equation listing it.
declared(eqs, key) ==
    Concat([i \in DOMAIN eqs |->
              LET v == Get(eqs[i].code, key, <<>>)
              IN  [j \in DOMAIN v |-> [eq_name |-> eqs[i].cls, var |-> v[j]]]])

\* var_names[name], tmp_names[name]: the class names appended under name
names_of(decls, name) ==
    LET hits == SelectSeq(decls, LAMBDA d : d.var.name = name)
    IN  [i \in DOMAIN hits |-> hits[i].eq_name]

\* tmp_declare[name]
declares_of(decls, name) ==
    LET hits == SelectSeq(decls, LAMBDA d : d.var.name = name)
    IN  [i \in DOMAIN hits |-> hits[i].var.declare]

\* the keys of var_names / tmp_names, as the dict yields them
keys_of(decls) ==
    KeysInOrder({decls[i].var.name : i \in DOMAIN decls}, hashorder.names)

VariableNameClashError(fmt, name, eqs, also) ==
    [exc |-> "VariableNameClashError", fmt |-> fmt, name |-> name,
     eqs |-> eqs, also |-> also]

tmp_is_variable_of_another_class(v, t, name) ==
    \E i \in DOMAIN v : \E j \in DOMAIN t :
        /\ v[i].var.name = name
        /\ t[j].var.name = name
        /\ v[i].eq_name # t[j].eq_name

\* The check at 289: is the temporary's name a key of var_names?
tmp_is_variable(v, t, name) == name \in Range(keys_of(v))

only_second_same_as_first(declares) ==
    declares[2] = declares[1]

\* The check at 297: all(map(lambda v: v == declares[0], declares))
all_same_as_first(declares) ==
    \A i \in DOMAIN declares : declares[i] = declares[1]

defined_in_two_classes(eqs) == Cardinality(Range(eqs)) > 1

\* The check at 284: len(eqs) > 1
defined_twice(eqs) == Len(eqs) > 1

\* Returns [raised, vars, temps].
_check_and_get_variables(egroups) ==
    LET eqs   == all_equations(egroups)
        v     == declared(eqs, "variables")
        t     == declared(eqs, "temporaries")
        vkeys == keys_of(v)
        tkeys == keys_of(t)
        dup   == SelectSeq(vkeys, LAMBDA n : defined_twice(names_of(v, n)))
        both  == SelectSeq(tkeys, LAMBDA n : tmp_is_variable(v, t, n))
        diff  == SelectSeq(tkeys, LAMBDA n :
                     /\ Len(names_of(t, n)) > 1
                     /\ ~ all_same_as_first(declares_of(t, n)))
        ok    == [raised |-> NoError,
                  vars  |-> [i \in DOMAIN v |-> v[i].var],
                  temps |-> [i \in DOMAIN t |-> t[i].var]]
        fail(e) == [raised |-> e, vars |-> <<>>, temps |-> <<>>]
    IN  IF dup # <<>>
        THEN fail(VariableNameClashError("Variable defined in", dup[1],
                                         names_of(v, dup[1]), <<>>))
        ELSE IF both # <<>>
        THEN fail(VariableNameClashError("Temporary also defined as variable",
                                         both[1], names_of(t, both[1]),
                                         names_of(v, both[1])))
        ELSE IF diff # <<>>
        THEN fail(VariableNameClashError("Temporary declarations differ",
                                         diff[1], names_of(t, diff[1]), <<>>))
        ELSE ok

-----------------------------------------------------------------------------
(* Declarations and initialization (cgsph.py 303-335).                     *)

TypeError == [exc |-> "TypeError"]
AttributeError == [exc |-> "AttributeError"]

\* decl = {}; decl[var.declare] = None for vars, then tmps; decl.keys()
_get_variable_declarations(vs, tmps) ==
    KeysInOrder({vs[i].declare : i \in DOMAIN vs}
                    \cup {tmps[i].declare : i \in DOMAIN tmps},
                hashorder.decls)

\* 'cdef double* %s' % array
array_declaration(array) == [stmt |-> "cdef double*", name |-> array]

\* Returns [raised, lines]; code.get('arrays') of None cannot be iterated.
_get_array_declarations(egroups) ==
    LET eqs == all_equations(egroups)
    IN  IF \E i \in DOMAIN eqs : ~ Has(eqs[i].code, "arrays")
        THEN [raised |-> TypeError, lines |-> EmptyBag]
        ELSE [raised |-> NoError,
              lines |-> SetToBag({array_declaration(a) :
                                    a \in UNION {Range(eqs[i].code["arrays"]) :
                                                   i \in DOMAIN eqs}})]

\* Returns [raised, lines]: the keys of init, a dict of initialize texts.
_get_initialization(eqs) ==
    IF \E i \in DOMAIN eqs :
           ~ Has(eqs[i].code, "variables") \/ ~ Has(eqs[i].code, "temporaries")
    THEN [raised |-> TypeError, lines |-> EmptyBag]
    ELSE [raised |-> NoError,
          lines |-> SetToBag(UNION {
                      {eqs[i].code["variables"][j].initialize :
                         j \in DOMAIN eqs[i].code["variables"]}
                      \cup {eqs[i].code["temporaries"][j].initialize :
                              j \in DOMAIN eqs[i].code["temporaries"]} :
                      i \in DOMAIN eqs})]

-----------------------------------------------------------------------------
(* SPHEval._get_equation_loop (cgsph.py 337-342).                          *)

KERNEL   == <<"K", "E", "R", "N", "E", "L">>
GRADIENT == <<"G", "R", "A", "D", "I", "E", "N", "T">>
Kernel   == <<"K", "e", "r", "n", "e", "l">>
Gradient == <<"G", "r", "a", "d", "i", "e", "n", "t">>

RECURSIVE replace(_, _, _)
\* str.replace(old, new): every non-overlapping occurrence, left to right
replace(s, old, new) ==
    IF Len(s) < Len(old) THEN s
    ELSE IF SubSeq(s, 1, Len(old)) = old
         THEN new \o replace(SubSeq(s, Len(old) + 1, Len(s)), old, new)
         ELSE <<Head(s)>> \o replace(Tail(s), old, new)

\* Returns [raised, text]; None has no replace.
_get_equation_loop(equation) ==
    IF ~ Has(equation.code, "loop")
    THEN [raised |-> AttributeError, text |-> <<>>]
    ELSE [raised |-> NoError,
          text |-> replace(replace(equation.code["loop"], KERNEL, kernel \o Kernel),
                           GRADIENT, kernel \o Gradient)]

-----------------------------------------------------------------------------
(* Array-dependency resolver (cgsph.py 344-365).                           *)

d_x == <<"d", "_", "x">>
d_y == <<"d", "_", "y">>
d_z == <<"d", "_", "z">>
d_h == <<"d", "_", "h">>
s_x == <<"s", "_", "x">>
s_y == <<"s", "_", "y">>
s_z == <<"s", "_", "z">>
s_h == <<"s", "_", "h">>

\* '%s = self.%s.%s.get_data_ptr()' % (n, name, n[2:])
get_data_ptr(n, name) == [lhs |-> n, obj |-> name, attr |-> SubSeq(n, 3, Len(n))]

\* [arr for e in eqs for arr in e.cython_code().get('arrays') if arr.startswith(prefix)]
arrays_with_prefix(eqs, prefix) ==
    Concat([i \in DOMAIN eqs |->
              SelectSeq(eqs[i].code["arrays"], LAMBDA arr : startswith(arr, prefix))])

lines_without_set(names, name) ==
    BagOfSeq([i \in DOMAIN names |-> get_data_ptr(names[i], name)])

\* names = set(names); [... for n in names]: one line per distinct name,
\* in the order of the set
lines_for_names(names, name) ==
    SetToBag({get_data_ptr(n, name) : n \in Range(names)})

\* eqs = set(eqs): the distinct equation objects of a list, in some order
RECURSIVE distinct_objects(_, _)
distinct_objects(eqs, seen) ==
    IF eqs = <<>> THEN <<>>
    ELSE IF Head(eqs).id \in seen
         THEN distinct_objects(Tail(eqs), seen)
         ELSE <<Head(eqs)>> \o distinct_objects(Tail(eqs), seen \cup {Head(eqs).id})

\* Returns [raised, first, lines]: the NP_DEST line and the pointer lines.
_get_dest_array_setup(dest_name, sources) ==
    LET keys == KeysInOrder(DOMAIN sources, hashorder.srcs)
        eqs  == distinct_objects(Concat([i \in DOMAIN keys |-> sources[keys[i]]]), {})
    IN  IF \E i \in DOMAIN eqs : ~ Has(eqs[i].code, "arrays")
        THEN [raised |-> TypeError, first |-> <<>>, lines |-> EmptyBag]
        ELSE [raised |-> NoError,
              first |-> [lhs |-> "NP_DEST", obj |-> dest_name, attr |-> "size()"],
              lines |-> lines_for_names(<<d_x, d_y, d_z, d_h>>
                                            \o arrays_with_prefix(eqs, Chars_d_),
                                        dest_name)]

\* Returns [raised, lines].
_get_src_array_setup(src_name, eqs) ==
    IF \E i \in DOMAIN eqs : ~ Has(eqs[i].code, "arrays")
    THEN [raised |-> TypeError, lines |-> EmptyBag]
    ELSE [raised |-> NoError,
          lines |-> lines_for_names(<<s_x, s_y, s_z, s_h>>
                                        \o arrays_with_prefix(eqs, Chars_s_),
                                    src_name)]

-----------------------------------------------------------------------------
(* Fragment producers other than equations (cgsph.py 7-13, 96-120) and the *)
(* particle arrays.                                                        *)

\* AllPairLocator().cython_code()
LocatorCode ==
    [helper |-> "cdef class AllPairLocator",
     setup  |-> "locator = AllPairLocator(s_x, s_h, d_x, d_h)"]

\* self.kernel.cython_code(): dict(helper=code)
KernelCode == [helper |-> "double cdef Kernel(double x, double y, double h)"]

\* self.particle_arrays: each array's name and the keys of its properties
particle_arrays ==
    <<[name |-> "fluid", properties |-> {"x", "y", "z", "h", "m", "rho", "tag", "pid"}],
      [name |-> "solid", properties |-> {"x", "y", "z", "h", "m", "group", "local"}]>>

\* get_code(obj, key) (cgsph.py 171-174), obj given by class name and bundle
get_code(cls, code, key) ==
    IF Has(code, key)
    THEN <<[kind |-> "doc", from |-> cls], [kind |-> "helper", text |-> code[key]]>>
    ELSE <<>>

\* define_particle_array_wrapper (cgsph.py 177-208): the wrapper class with
\* one DoubleArray per property that is not a bookkeeping one
define_particle_array_wrapper(arrays) ==
    [kind |-> "ParticleArrayWrapper",
     props |-> UNION {arrays[i].properties : i \in DOMAIN arrays}
                 \ {"tag", "group", "local", "pid"}]

\* SPHEval._get_helpers (cgsph.py 240-255)
_get_helpers(egroups) ==
    LET eqs == all_equations(egroups)
    IN  <<[kind |-> "cimport carray"], [kind |-> "import carray"], [kind |-> "blank"]>>
        \o get_code(kernel, KernelCode, "helper")
        \o Concat([i \in DOMAIN eqs |-> get_code(eqs[i].cls, eqs[i].code, "helper")])
        \o get_code("AllPairLocator", LocatorCode, "helper")
        \o <<define_particle_array_wrapper(particle_arrays)>>

-----------------------------------------------------------------------------
(* SourceCode (cgsph.py 125-152).  A SourceCode object is given by the     *)
(* calls made on it since SourceCode(): indent, dedent and add(code).      *)

indent == [call |-> "indent"]

dedent == [call |-> "dedent"]

add(code) == [call |-> "add", code |-> code]

\* self.level after the calls: 0, +1 for every indent, -1 for every dedent
level_after(calls) ==
    Cardinality({i \in DOMAIN calls : calls[i] = indent})
        - Cardinality({i \in DOMAIN calls : calls[i] = dedent})

code_after_at_final_level(calls) ==
    LET adds == SelectSeq([i \in DOMAIN calls |-> i],
                          LAMBDA i : calls[i].call = "add")
    IN  [k \in DOMAIN adds |->
           [code  |-> calls[adds[k]].code,
            level |-> level_after(calls)]]

\* self.code after the calls: every add appended (code, self.level)
code_after(calls) ==
    LET adds == SelectSeq([i \in DOMAIN calls |-> i],
                          LAMBDA i : calls[i].call = "add")
    IN  [k \in DOMAIN adds |->
           [code  |-> calls[adds[k]].code,
            level |-> level_after(SubSeq(calls, 1, adds[k] - 1))]]

SourceCode(calls) == [code |-> code_after(calls), level |-> level_after(calls)]

\* The text None, which src.add accepts and splitlines() in get() does not.
None == [kind |-> "None"]

\* level*4*' ' in front of every line of the block
_indented_code(code, level) == [code |-> code, indent |-> level * 4]

\* Returns [raised, text]: the blocks, each with the indent of its lines.
get(src) ==
    IF \E i \in DOMAIN src.code : src.code[i].code = None
    THEN [raised |-> AttributeError, text |-> <<>>]
    ELSE [raised |-> NoError,
          text |-> [i \in DOMAIN src.code |->
                      _indented_code(src.code[i].code, src.code[i].level)]]

-----------------------------------------------------------------------------
(* SPHEval._get_body (cgsph.py 368-443), as the statements it executes in  *)
(* order: the calls on src, and raise where a statement raises.            *)

raise(exc) == [call |-> "raise", exc |-> exc]

\* src.add(f(...)) where the call f(...) gave r: it raised, or its text is code
add_result(r, code) == IF r.raised # NoError THEN raise(r.raised) ELSE add(code)

\* 431-433: for equation in equations: the comment, then the fragment
loop_fragments(eqs) ==
    Concat([i \in DOMAIN eqs |->
              LET r == _get_equation_loop(eqs[i])
              IN  <<add([kind |-> "# Equation", cls |-> eqs[i].cls]),
                    add_result(r, [kind |-> "loop", text |-> r.text])>>])

\* 435-437: for equation in equations: src.add(code.get('post'))
post_fragments(eqs) ==
    [i \in DOMAIN eqs |->
       add(IF Has(eqs[i].code, "post")
           THEN [kind |-> "post", text |-> eqs[i].code["post"]]
           ELSE None)]

posts_before_loop_closes(eqs) == post_fragments(eqs) \o <<dedent>>

\* 434-437: close the neighbor loop, then the finalization fragments
posts_after_loop(eqs) == <<dedent>> \o post_fragments(eqs)

\* 407-439: one source of one destination
source_block(source, eqs) ==
    LET setup == _get_src_array_setup(source, eqs)
        init  == _get_initialization(eqs)
    IN  <<add([kind |-> "# Source", name |-> source]),
          add_result(setup, [kind |-> "src_array_setup", lines |-> setup.lines]),
          add([kind |-> "locator_setup", text |-> LocatorCode["setup"]]),
          add([kind |-> "for d_idx in range(NP_DEST):"]),
          indent,
          add_result(init, [kind |-> "initialization", lines |-> init.lines]),
          add([kind |-> "for nbr_idx in range(len(nbrs)):"]),
          indent>>
        \o loop_fragments(eqs)
        \o posts_after_loop(eqs)
        \o <<dedent,
             add([kind |-> "# Source done", name |-> source])>>

\* 401-440: one destination of one group; sources.iteritems() is a dict's
dest_block(dest, sources) ==
    LET setup == _get_dest_array_setup(dest, sources)
        keys  == KeysInOrder(DOMAIN sources, hashorder.srcs)
    IN  <<add([kind |-> "# Destination", name |-> dest]),
          add_result(setup, [kind |-> "dest_array_setup",
                             first |-> setup.first, lines |-> setup.lines])>>
        \o Concat([i \in DOMAIN keys |-> source_block(keys[i], sources[keys[i]])])
        \o <<add([kind |-> "# Destination done", name |-> dest])>>

\* 398-441: for g_idx, group in enumerate(self.groups); group.iteritems()
\* is an OrderedDict's
group_block(g_idx, group) ==
    <<add([kind |-> "# Group", g_idx |-> g_idx])>>
    \o Concat([i \in DOMAIN group.keys |->
                 dest_block(group.keys[i], group.map[group.keys[i]])])
    \o <<add([kind |-> "# Group done", g_idx |-> g_idx])>>

\* The statements of _get_body from src = SourceCode() to the last group.
body_statements(egroups, gs) ==
    LET checked == _check_and_get_variables(egroups)
        arrays  == _get_array_declarations(egroups)
    IN  (IF checked.raised # NoError THEN <<raise(checked.raised)>> ELSE <<>>)
        \o <<add([kind |-> "cdef class SPHCalc",
                  pa_names |-> [i \in DOMAIN particle_arrays |->
                                  particle_arrays[i].name]]),
             indent,
             indent,
             add_result(arrays, [kind |-> "array_declarations",
                                 lines |-> arrays.lines]),
             add([kind |-> "variable_declarations",
                  lines |-> _get_variable_declarations(checked.vars,
                                                       checked.temps)])>>
        \o Concat([g \in DOMAIN gs |-> group_block(g - 1, gs[g])])

\* The statements executed: those before the first that raises.
executed(stmts) ==
    LET raises == SelectSeq([i \in DOMAIN stmts |-> i],
                            LAMBDA i : stmts[i].call = "raise")
    IN  IF raises = <<>>
        THEN [raised |-> NoError, calls |-> stmts]
        ELSE [raised |-> stmts[raises[1]].exc,
              calls |-> SubSeq(stmts, 1, raises[1] - 1)]

\* Returns [raised, text]; the last statement is return src.get().
_get_body(egroups, gs) ==
    LET run == executed(body_statements(egroups, gs))
    IN  IF run.raised # NoError
        THEN [raised |-> run.raised, text |-> <<>>]
        ELSE get(SourceCode(run.calls))

-----------------------------------------------------------------------------
(* SPHEval.generate (cgsph.py 445-448).                                    *)

generate_writes_helpers_first(egroups, gs, sink) ==
    LET body == _get_body(egroups, gs)
    IN  IF body.raised # NoError
        THEN [raised |-> body.raised,
              fp |-> Append(sink, [helpers |-> _get_helpers(egroups), body |-> <<>>])]
        ELSE [raised |-> NoError,
              fp |-> Append(sink, [helpers |-> _get_helpers(egroups),
                                   body |-> body.text])]

\* Returns [raised, fp]: the exception raised, and the sink afterwards.
generate(egroups, gs, sink) ==
    LET code == _get_helpers(egroups)
        body == _get_body(egroups, gs)
    IN  IF body.raised # NoError
        THEN [raised |-> body.raised, fp |-> sink]
        ELSE [raised |-> NoError,
              fp |-> Append(sink, [helpers |-> code, body |-> body.text])]

-----------------------------------------------------------------------------
(* SPHEval.__init__ and generate as actions.                               *)

\* SPHEval(particle_arrays, equations, locator, kernel) (cgsph.py 214-219)
Construct ==
    /\ pc = "start"
    /\ LET r == check_equations(equations)
       IN  IF r.raised # NoError
           THEN /\ pc' = "raised"
                /\ raised' = r.raised
                /\ UNCHANGED <<equation_groups, groups>>
           ELSE /\ pc' = "constructed"
                /\ equation_groups' = r.value
                /\ groups' = [i \in DOMAIN r.value |-> _make_group(r.value[i])]
                /\ UNCHANGED raised
    /\ UNCHANGED <<equations, kernel, hashorder, fp>>

\* sph_eval.generate(fp) (cgsph.py 445-448)
Generate ==
    /\ pc = "constructed"
    /\ LET r == generate(equation_groups, groups, fp)
       IN  /\ fp' = r.fp
           /\ raised' = r.raised
           /\ pc' = IF r.raised = NoError THEN "generated" ELSE "raised"
    /\ UNCHANGED <<equations, kernel, hashorder, equation_groups, groups>>

Next == Construct \/ Generate

-----------------------------------------------------------------------------
(* The inputs: lists of Equation and Group objects built from templates    *)
(* [cls, dest, sources, code], and the dict orders that go with them.      *)

MaxEqs == 2
MaxVarEqs == 2
MaxTmpEqs == 3
MaxShapeEqs == 2
MaxKeyEqs == 1
MaxPieces == 3
MaxGroupEqs == 2

Chars_CubicSpline == <<"C", "u", "b", "i", "c", "S", "p", "l", "i", "n", "e">>

\* The lists of at most n templates.
Lists(T, n) == UNION {[1..k -> T] : k \in 0..n}

\* The objects of a list of templates; the position is the identity.
Objects(ts) ==
    [i \in DOMAIN ts |->
       Equation(i, ts[i].cls, ts[i].dest, ts[i].sources, ts[i].code)]

\* An item of a shape: a bare equation, or a Group of n equations.
Bare == [isGroup |-> FALSE, n |-> 1]
GroupOf(n) == [isGroup |-> TRUE, n |-> n]

RECURSIVE Total(_)
Total(shape) == IF shape = <<>> THEN 0 ELSE Head(shape).n + Total(Tail(shape))

RECURSIVE Shaped(_, _)
\* The list that holds the objects eqs as the items of shape.
Shaped(eqs, shape) ==
    IF shape = <<>> THEN <<>>
    ELSE LET k == Head(shape).n
             rest == Shaped(SubSeq(eqs, k + 1, Len(eqs)), Tail(shape))
         IN  IF Head(shape).isGroup
             THEN <<Group(SubSeq(eqs, 1, k))>> \o rest
             ELSE <<eqs[1]>> \o rest

\* The shapes of n equations: flat, or split into non-empty Groups.
FlatShape(n) == [i \in 1..n |-> Bare]
GroupedShapes(n) ==
    {sh \in UNION {[1..k -> {GroupOf(m) : m \in 1..n}] : k \in 1..n} : Total(sh) = n}
\* Every shape of n equations: bare equations and Groups (empty ones too)
\* in one list, of at most n items, or one item when n = 0.
MixedShapes(n) ==
    LET items == IF n = 0 THEN 1 ELSE n
    IN  {sh \in UNION {[1..k -> {Bare} \cup {GroupOf(m) : m \in 0..n}] : k \in 0..items} :
           Total(sh) = n}

FlatShapes(n) == {FlatShape(n)}
BodyShapes(n) == {FlatShape(n)} \cup GroupedShapes(n)

\* The shapes of a family of inputs.
ShapesOf(family, n) ==
    CASE family = "flat" -> FlatShapes(n)
      [] family = "flat or grouped" -> BodyShapes(n)
      [] family = "mixed" -> MixedShapes(n)

\* The lists of at most n objects of the templates T, in the family's shapes.
InputsOf(T, n, family) ==
    UNION {{Shaped(Objects(ts), sh) : sh \in ShapesOf(family, Len(ts))} :
             ts \in Lists(T, n)}

\* The equations of an input list, Groups opened.
Flattened(eqs) ==
    Concat([i \in DOMAIN eqs |->
              IF eqs[i].isGroup THEN eqs[i].equations ELSE <<eqs[i]>>])

\* The keys of the dicts whose order shows: variable and temporary names,
\* declaration texts, source names.
NamesIn(eqs) ==
    UNION {{v.name : v \in Range(Get(e.code, "variables", <<>>))
                          \cup Range(Get(e.code, "temporaries", <<>>))} :
             e \in Range(Flattened(eqs))}
DeclsIn(eqs) ==
    UNION {{v.declare : v \in Range(Get(e.code, "variables", <<>>))
                             \cup Range(Get(e.code, "temporaries", <<>>))} :
             e \in Range(Flattened(eqs))}
SourcesIn(eqs) == UNION {Range(e.sources) : e \in Range(Flattened(eqs))}

HashOrders(eqs) ==
    [names : Perms(NamesIn(eqs)), decls : Perms(DeclsIn(eqs)),
     srcs : Perms(SourcesIn(eqs))]

InitWith(Inputs, Kernels) ==
    /\ equations \in Inputs
    /\ kernel \in Kernels
    /\ hashorder \in HashOrders(equations)
    /\ pc = "start"
    /\ equation_groups = <<>>
    /\ groups = <<>>
    /\ fp = <<>>
    /\ raised = NoError

\* A bundle with every key but 'helper', as SummationDensity returns it.
Bundle(vs, ts, arrays, loop, post) ==
    [variables |-> vs, temporaries |-> ts, arrays |-> arrays,
     loop |-> loop, post |-> post]

-----------------------------------------------------------------------------
(* Equation sets for the emitter: SummationDensity (cgsph.py 63-77) and a  *)
(* second class sharing its temporary, on two particle arrays.             *)

d_rho == <<"d", "_", "r", "h", "o">>
s_m   == <<"s", "_", "m">>
d_au  == <<"d", "_", "a", "u">>
dt    == <<"d", "t">>

rho_sum == Variable("double", "rho_sum", Float0)
hab     == Temporary("double", "hab", Float0)

SummationDensityCode ==
    Bundle(<<rho_sum>>, <<hab>>, <<s_h, s_m, s_x, d_h, d_x, d_rho>>,
           <<"r", "+", "=">> \o KERNEL \o <<"(", "h", ")">>,
           <<"d", "_", "r", "h", "o", "=", "r">>)

MomentumCode ==
    Bundle(<<>>, <<hab>>, <<d_au, s_m, d_rho, d_au, dt>>,
           <<"a", "+", "=">> \o GRADIENT \o <<"(", "h", ")">>,
           <<"d", "_", "a", "u", "=", "a">>)

BodySources == {<<>>, <<"fluid">>, <<"fluid", "solid">>}

BodyTemplates ==
    [cls : {"SummationDensity"}, dest : {"fluid", "solid"},
     sources : BodySources, code : {SummationDensityCode}]
    \cup
    [cls : {"Momentum"}, dest : {"fluid", "solid"},
     sources : BodySources, code : {MomentumCode}]

Init == InitWith(InputsOf(BodyTemplates, MaxEqs, "flat or grouped"), {Chars_CubicSpline})

Spec == Init /\ [][Next]_vars

-----------------------------------------------------------------------------
(* Reading the written document.                                           *)

Generated == pc = "generated"

\* The blocks of the body of the document written to the sink.
BodyOf(doc) == doc.body

KindsOf(body) == [i \in DOMAIN body |-> body[i].code.kind]

\* The g_idx of the group whose blocks hold block i.
GroupAt(body, i) ==
    LET heads == {j \in 1..i : body[j].code.kind = "# Group"}
    IN  body[CHOOSE j \in heads : \A k \in heads : k <= j].code.g_idx

\* How many lines of a pointer-setup block bind the token.
Bindings(lines, token) ==
    BagCardinality([l \in {m \in BagToSet(lines) : m.lhs = token} |-> lines[l]])

TokensWith(eqs, side) ==
    {a \in UNION {Range(eqs[i].code["arrays"]) : i \in DOMAIN eqs} :
       Len(a) >= 2 /\ a[1] = side /\ a[2] = "_"}

\* The equations of a group that list the source.
ActiveOn(eqs, source) == SelectSeq(eqs, LAMBDA e : source \in Range(e.sources))

\* The equations of a group that list any source.
WithSources(eqs) == SelectSeq(eqs, LAMBDA e : e.sources # <<>>)

-----------------------------------------------------------------------------
(* C10: every destination pointer-setup block binds NP_DEST and exactly    *)
(* once each distinct token of {d_x, d_y, d_z, d_h} and of the d_ tokens   *)
(* of the equations passed for the destination, and nothing else; every    *)
(* source pointer-setup block binds exactly once each distinct token of    *)
(* {s_x, s_y, s_z, s_h} and of the s_ tokens of the equations passed.      *)

ExactlyOnce(lines, tokens) ==
    /\ \A t \in tokens : Bindings(lines, t) = 1
    /\ \A l \in BagToSet(lines) : l.lhs \in tokens

C10_SetupBlocks(body) ==
    \A i \in DOMAIN body :
        LET b   == body[i].code
            eqs == equation_groups[GroupAt(body, i) + 1].equations
        IN  /\ b.kind = "dest_array_setup" =>
                 /\ b.first.lhs = "NP_DEST"
                 /\ b.first.obj = body[i - 1].code.name
                 /\ ExactlyOnce(b.lines,
                                {d_x, d_y, d_z, d_h}
                                    \cup TokensWith(WithSources(eqs), "d"))
                 /\ \A l \in BagToSet(b.lines) : l.obj = body[i - 1].code.name
            /\ b.kind = "src_array_setup" =>
                 /\ ExactlyOnce(b.lines,
                                {s_x, s_y, s_z, s_h}
                                    \cup TokensWith(ActiveOn(eqs, body[i - 1].code.name),
                                                    "s"))
                 /\ \A l \in BagToSet(b.lines) : l.obj = body[i - 1].code.name

C10_Theorem == Generated => C10_SetupBlocks(BodyOf(fp[1]))

\* A document with a destination block that binds only the four required
\* tokens, and one that binds d_rho and, once, the d_x an equation lists too.
C10_Witness ==
    /\ Generated
    /\ \E i, j \in DOMAIN BodyOf(fp[1]) :
          LET b == BodyOf(fp[1])[i].code
              c == BodyOf(fp[1])[j].code
          IN  /\ b.kind = "dest_array_setup"
              /\ BagCardinality(b.lines) = 4
              /\ c.kind = "dest_array_setup"
              /\ Bindings(c.lines, d_rho) = 1
              /\ d_x \in TokensWith(equation_groups[GroupAt(BodyOf(fp[1]), j) + 1].equations, "d")

-----------------------------------------------------------------------------
(* C7: in the body, for every group in supplied order, every destination   *)
(* of the group and every source of the destination, the blocks come in    *)
(* this order: the destination's pointer setup; then per source its        *)
(* pointer setup, the locator setup, the destination-particle loop header, *)
(* the initialization of the equations active on the source, the neighbor  *)
(* loop header, the substituted fragment of every active equation in       *)
(* equation order inside the neighbor loop, and every active equation's    *)
(* finalization fragment in equation order once the neighbor loop is       *)
(* closed; a group's blocks all come before the next group's.              *)

Step(tag, name, text) == [tag |-> tag, name |-> name, text |-> text]

\* The dests of a group's equations, each at its first occurrence.
FirstDests(eqs) ==
    LET firsts == SelectSeq([i \in DOMAIN eqs |-> i],
                            LAMBDA i : \A j \in 1..(i - 1) : eqs[j].dest # eqs[i].dest)
    IN  [k \in DOMAIN firsts |-> eqs[firsts[k]].dest]

ExpectedForSource(eqs, s) ==
    LET active == ActiveOn(eqs, s)
    IN  <<Step("source setup", s, <<>>),
          Step("locator setup", "", <<>>),
          Step("destination loop", "", <<>>),
          Step("initialization", "", <<>>),
          Step("neighbor loop", "", <<>>)>>
        \o [i \in DOMAIN active |->
              Step("fragment", "", _get_equation_loop(active[i]).text)]
        \o [i \in DOMAIN active |-> Step("finalization", "", active[i].code["post"])]

ExpectedForGroup(eqs) ==
    LET dests == FirstDests(eqs)
        srcs  == KeysInOrder(UNION {Range(eqs[i].sources) : i \in DOMAIN eqs},
                             hashorder.srcs)
    IN  Concat([d \in DOMAIN dests |->
                  <<Step("destination setup", dests[d], <<>>)>>
                  \o Concat([k \in DOMAIN srcs |-> ExpectedForSource(eqs, srcs[k])])])

ExpectedOrder ==
    Concat([g \in DOMAIN equation_groups |->
              ExpectedForGroup(equation_groups[g].equations)])

\* The blocks of the body the claim orders, each as the step it is.
StepOf(b) ==
    CASE b.kind = "dest_array_setup" -> <<Step("destination setup", b.first.obj, <<>>)>>
      [] b.kind = "src_array_setup" ->
            <<Step("source setup", (CHOOSE l \in BagToSet(b.lines) : TRUE).obj, <<>>)>>
      [] b.kind = "locator_setup" -> <<Step("locator setup", "", <<>>)>>
      [] b.kind = "for d_idx in range(NP_DEST):" -> <<Step("destination loop", "", <<>>)>>
      [] b.kind = "initialization" -> <<Step("initialization", "", <<>>)>>
      [] b.kind = "for nbr_idx in range(len(nbrs)):" -> <<Step("neighbor loop", "", <<>>)>>
      [] b.kind = "loop" -> <<Step("fragment", "", b.text)>>
      [] b.kind = "post" -> <<Step("finalization", "", b.text)>>
      [] OTHER -> <<>>

StepsOf(body) == Concat([i \in DOMAIN body |-> StepOf(body[i].code)])

\* The neighbor loop header that opens the loop block i follows.
LoopHeaderBefore(body, i) ==
    CHOOSE j \in 1..i :
        /\ body[j].code.kind = "for nbr_idx in range(len(nbrs)):"
        /\ \A k \in (j + 1)..i : body[k].code.kind # "for nbr_idx in range(len(nbrs)):"

\* Fragments are indented under the neighbor loop header, finalization
\* fragments are not; the initialization belongs to the destination loop.
C7_Nesting(body) ==
    \A i \in DOMAIN body :
        /\ body[i].code.kind = "loop" =>
             body[i].indent > body[LoopHeaderBefore(body, i)].indent
        /\ body[i].code.kind = "post" =>
             body[i].indent = body[LoopHeaderBefore(body, i)].indent
        /\ body[i].code.kind = "for nbr_idx in range(len(nbrs)):" =>
             /\ body[i - 1].code.kind = "initialization"
             /\ body[i - 1].indent = body[i].indent
             /\ body[i - 2].code.kind = "for d_idx in range(NP_DEST):"
             /\ body[i - 2].indent < body[i].indent

C7_Theorem ==
    Generated =>
        /\ StepsOf(BodyOf(fp[1])) = ExpectedOrder
        /\ C7_Nesting(BodyOf(fp[1]))

\* Two groups, each with an equation active on a source, the first of them
\* on two sources.
C7_Witness ==
    /\ Generated
    /\ Len(equation_groups) = 2
    /\ equation_groups[1].equations[1].sources = <<"fluid", "solid">>
    /\ equation_groups[2].equations[1].sources # <<>>
    /\ Cardinality({i \in DOMAIN BodyOf(fp[1]) : BodyOf(fp[1])[i].code.kind = "post"}) = 3

-----------------------------------------------------------------------------
(* Equation sets for the declaration checker.  An equation class has one   *)
(* cython_code(): a class is a name and the bundle it returns.             *)

var_x == Variable("double", "x", Float0)
var_y == Variable("double", "y", PyNone)
tmp_x == Temporary("double", "x", Float0)

\* An equation of class cls on the particle array fluid.
OnFluid(cls, vs, ts) ==
    [cls |-> cls, dest |-> "fluid", sources |-> <<"fluid">>,
     code |-> Bundle(vs, ts, <<>>, <<>>, <<>>)]

VarTemplates ==
    {OnFluid("Plain", <<>>, <<>>),
     OnFluid("EqX", <<var_x>>, <<>>),
     OnFluid("EqY", <<var_y>>, <<>>),
     OnFluid("EqXY", <<var_x, var_y>>, <<>>),
     OnFluid("EqXX", <<var_x, var_x>>, <<>>),
     OnFluid("TmpX", <<>>, <<tmp_x>>),
     OnFluid("EqXTmpX", <<var_x>>, <<tmp_x>>)}

InitVar == InitWith(InputsOf(VarTemplates, MaxVarEqs, "flat or grouped"), {Chars_CubicSpline})

SpecVar == InitVar /\ [][Next]_vars

\* generate has returned or raised
GenerateDone == pc = "generated" \/ (pc = "raised" /\ raised # ValueError)

\* The Variable and Temporary descriptors of an equation object.
VariablesOf(e) == Range(Get(e.code, "variables", <<>>))
TemporariesOf(e) == Range(Get(e.code, "temporaries", <<>>))

\* The equation objects of the input, in list order.
InputEquations == Flattened(equations)

\* The class names of the Variable declarations of a name, in list order.
DeclarationsOf(n) ==
    Concat([i \in DOMAIN InputEquations |->
              LET vs == SelectSeq(Get(InputEquations[i].code, "variables", <<>>),
                                  LAMBDA v : v.name = n)
              IN  [j \in DOMAIN vs |-> InputEquations[i].cls]])

\* Two equation objects declare a Variable named n.
TwoDeclare(n) ==
    \E i, j \in DOMAIN InputEquations :
        /\ i # j
        /\ \E v \in VariablesOf(InputEquations[i]) : v.name = n
        /\ \E v \in VariablesOf(InputEquations[j]) : v.name = n

\* C1 as claimed: whenever two equations declare a Variable of the same
\* name, generate fails with a VariableNameClashError whose message contains
\* that name and the class names of both equations.
C1_AsClaimed ==
    GenerateDone =>
        \A i, j \in DOMAIN InputEquations :
            \A v \in VariablesOf(InputEquations[i]) :
                (i # j /\ \E w \in VariablesOf(InputEquations[j]) : w.name = v.name)
                => /\ pc = "raised"
                   /\ raised.exc = "VariableNameClashError"
                   /\ raised.name = v.name
                   /\ {InputEquations[i].cls, InputEquations[j].cls}
                          \subseteq Range(raised.eqs)

\* C1: whenever two equations declare a Variable of the same name, generate
\* fails with a VariableNameClashError whose message names one Variable name
\* that is declared more than once and the class name of every declaration
\* of that name, in list order.
C1_Theorem ==
    (GenerateDone /\ \E n \in NamesIn(equations) : TwoDeclare(n)) =>
        /\ pc = "raised"
        /\ raised.exc = "VariableNameClashError"
        /\ raised.fmt = "Variable defined in"
        /\ Len(DeclarationsOf(raised.name)) > 1
        /\ raised.eqs = DeclarationsOf(raised.name)

\* Two groups, the equation of each declaring the Variable x, and the
\* error names x and both classes.
C1_Witness ==
    /\ pc = "raised"
    /\ Len(equations) = 2
    /\ equations[1].isGroup
    /\ raised.exc = "VariableNameClashError"
    /\ raised.name = "x"
    /\ raised.eqs = <<"EqXY", "EqX">>
    /\ TwoDeclare("x")

\* C2: whenever a name is declared as a Variable by one equation and as a
\* Temporary by the same or another equation, in whichever order and
\* groups, generate fails with a VariableNameClashError.
C2_Theorem ==
    (/\ GenerateDone
     /\ \E i, j \in DOMAIN InputEquations :
           \E v \in VariablesOf(InputEquations[i]) :
               \E t \in TemporariesOf(InputEquations[j]) : v.name = t.name)
    => /\ pc = "raised"
       /\ raised.exc = "VariableNameClashError"

\* The Temporary x is declared in the first group, the Variable x in the
\* second, no Variable twice, and generate has raised for x.
C2_Witness ==
    /\ pc = "raised"
    /\ Len(equations) = 2
    /\ equations[1].isGroup
    /\ raised.fmt = "Temporary also defined as variable"
    /\ raised.name = "x"
    /\ VariablesOf(equations[1].equations[1]) = {}
    /\ tmp_x \in TemporariesOf(equations[1].equations[1])
    /\ var_x \in VariablesOf(equations[2].equations[1])

-----------------------------------------------------------------------------
(* Equation sets that share a Temporary: the Temporary t declared with the *)
(* default 0.0, '0.0' (a str) or 1.0, or with another type, beside a       *)
(* Variable x.                                                             *)

tmp_t0  == Temporary("double", "t", Float0)
tmp_t0s == Temporary("double", "t", Str0)
tmp_t1  == Temporary("double", "t", Float1)
tmp_tf  == Temporary("float", "t", Float0)

TmpTemplates ==
    {OnFluid("EqT0", <<>>, <<tmp_t0>>),
     OnFluid("EqT0s", <<>>, <<tmp_t0s>>),
     OnFluid("EqT1", <<>>, <<tmp_t1>>),
     OnFluid("EqTf", <<>>, <<tmp_tf>>),
     OnFluid("EqT0T1", <<>>, <<tmp_t0, tmp_t1>>),
     OnFluid("EqXT0", <<var_x>>, <<tmp_t0>>)}

InitTmp == InitWith(InputsOf(TmpTemplates, MaxTmpEqs, "flat"), {Chars_CubicSpline})

SpecTmp == InitTmp /\ [][Next]_vars

\* The Temporary descriptors of the input, in list order.
InputTemporaries ==
    Concat([i \in DOMAIN InputEquations |->
              Get(InputEquations[i].code, "temporaries", <<>>)])

InputVariables ==
    Concat([i \in DOMAIN InputEquations |->
              Get(InputEquations[i].code, "variables", <<>>)])

\* No Variable name is declared twice, none is a Temporary's name.
NoVariableClash ==
    /\ \A i, j \in DOMAIN InputVariables :
           InputVariables[i].name = InputVariables[j].name => i = j
    /\ \A v \in Range(InputVariables) : \A t \in Range(InputTemporaries) :
           v.name # t.name

\* Two equation objects declare a Temporary named n.
TwoDeclareTemporary(n) ==
    \E i, j \in DOMAIN InputEquations :
        /\ i # j
        /\ \E t \in TemporariesOf(InputEquations[i]) : t.name = n
        /\ \E t \in TemporariesOf(InputEquations[j]) : t.name = n

SharesTemporary == \E t \in Range(InputTemporaries) : TwoDeclareTemporary(t.name)

\* C3 as claimed: with no Variable clash and a Temporary name shared by two
\* or more equations, the check succeeds when all declarations under a
\* shared name are identical and fails with a VariableNameClashError when
\* any two of them differ in type or default.
C3_AsClaimed ==
    (GenerateDone /\ NoVariableClash /\ SharesTemporary) =>
        IF \E t, u \in Range(InputTemporaries) :
               /\ TwoDeclareTemporary(t.name)
               /\ t.name = u.name
               /\ (t.type # u.type \/ t.default # u.default)
        THEN pc = "raised" /\ raised.exc = "VariableNameClashError"
        ELSE pc = "generated"

\* C3: with no Variable clash and a Temporary name shared by two or more
\* equations, the check succeeds when under every name declared more than
\* once all declaration texts are identical, and fails with a
\* VariableNameClashError when under some name two declaration texts
\* differ, wherever in the list the differing one is.
C3_Theorem ==
    (GenerateDone /\ NoVariableClash /\ SharesTemporary) =>
        IF \E t, u \in Range(InputTemporaries) :
               t.name = u.name /\ t.declare # u.declare
        THEN /\ pc = "raised"
             /\ raised.exc = "VariableNameClashError"
             /\ raised.fmt = "Temporary declarations differ"
        ELSE pc = "generated"

\* Three equations declare t; the first two texts are the same (the
\* defaults 0.0 and '0.0' differ), the third differs, and generate raised.
C3_Witness ==
    /\ pc = "raised"
    /\ raised.fmt = "Temporary declarations differ"
    /\ raised.eqs = <<"EqT0", "EqT0s", "EqT1">>

\* The texts of a list of descriptors, each at its first occurrence.
FirstSeen(ds) ==
    LET firsts == SelectSeq([i \in DOMAIN ds |-> i],
                            LAMBDA i : \A j \in 1..(i - 1) : ds[j].declare # ds[i].declare)
    IN  [k \in DOMAIN firsts |-> ds[firsts[k]].declare]

DeclarationsBlock(body) ==
    body[CHOOSE i \in DOMAIN body : body[i].code.kind = "variable_declarations"].code.lines

\* C8: the declarations emitted at the top of the routine are the
\* declaration texts of all Variables and then all Temporaries of all
\* equations, each distinct text exactly once, in first-seen order.
C8_AsClaimed ==
    Generated =>
        DeclarationsBlock(BodyOf(fp[1])) = FirstSeen(InputVariables \o InputTemporaries)

-----------------------------------------------------------------------------
(* Equation lists of every shape: bare equations, Groups, and both mixed,  *)
(* with and without naming conflicts.                                      *)

ShapeTemplates ==
    {OnFluid("EqX", <<var_x>>, <<>>),
     OnFluid("TmpT0", <<>>, <<tmp_t0>>),
     OnFluid("TmpT1X", <<>>, <<tmp_t1, tmp_x>>)}

InitShape == InitWith(InputsOf(ShapeTemplates, MaxShapeEqs, "mixed"), {Chars_CubicSpline})

SpecShape == InitShape /\ [][Next]_vars

\* The list mixes bare equations and Groups.
MixedList ==
    /\ \E i \in DOMAIN equations : equations[i].isGroup
    /\ \E i \in DOMAIN equations : ~equations[i].isGroup

DuplicateVariable ==
    \E i, j \in DOMAIN InputVariables :
        i # j /\ InputVariables[i].name = InputVariables[j].name

VariableTemporaryCollision ==
    \E v \in Range(InputVariables) : \E t \in Range(InputTemporaries) :
        v.name = t.name

DifferingTemporaries ==
    \E t, u \in Range(InputTemporaries) : t.name = u.name /\ t.declare # u.declare

NamingConflict ==
    DuplicateVariable \/ VariableTemporaryCollision \/ DifferingTemporaries

\* C4: for an input that mixes bare equations and Groups, has a duplicate
\* Variable name, a Variable/Temporary name collision or differing
\* Temporary declarations, nothing is ever written to the sink: a mixed
\* list raises ValueError in the constructor, before any group is built,
\* and a naming conflict raises VariableNameClashError in generate, which
\* leaves the sink as it was.
C4_Theorem ==
    /\ MixedList =>
         /\ fp = <<>>
         /\ pc \in {"start", "raised"}
         /\ pc = "raised" => raised = ValueError /\ equation_groups = <<>>
    /\ (~MixedList /\ NamingConflict) =>
         /\ fp = <<>>
         /\ pc \in {"start", "constructed", "raised"}
         /\ pc = "raised" =>
              raised.exc = "VariableNameClashError" /\ equation_groups # <<>>

\* generate has raised on a list of Groups whose temporaries differ, and
\* the sink is empty.
C4_Witness ==
    /\ pc = "raised"
    /\ raised.exc = "VariableNameClashError"
    /\ ~DuplicateVariable /\ ~VariableTemporaryCollision
    /\ DifferingTemporaries
    /\ Len(equations) = 2 /\ \A i \in DOMAIN equations : equations[i].isGroup
    /\ fp = <<>>

Constructed == pc \in {"constructed", "generated"} \/ (pc = "raised" /\ raised # ValueError)

\* C5: check_equations of a list holding only Equation instances is a list
\* of exactly one Group whose equations are the list's elements in their
\* order; of a list holding only Groups it is that list, unchanged.
C5_Theorem ==
    (Constructed /\ ~MixedList) =>
        IF \A i \in DOMAIN equations : ~equations[i].isGroup
        THEN /\ Len(equation_groups) = 1
             /\ equation_groups[1].isGroup
             /\ equation_groups[1].equations = equations
        ELSE equation_groups = equations

\* The constructor has normalised a flat list of two different equations.
C5_Witness ==
    /\ pc = "constructed"
    /\ Len(equations) = 2
    /\ \A i \in DOMAIN equations : ~equations[i].isGroup
    /\ equations[1].cls # equations[2].cls
    /\ Len(equation_groups) = 1

-----------------------------------------------------------------------------
(* Equations whose cython_code() leaves out fragment keys.                 *)

FullCode ==
    [variables |-> <<var_x>>, temporaries |-> <<tmp_t0>>, arrays |-> <<d_rho>>,
     loop |-> <<"r", "+", "=", "1">>, post |-> <<"d", "_", "r", "h", "o", "=", "r">>,
     helper |-> <<"h">>]

\* The bundle code without the keys of omit.
Without(code, omit) == [k \in DOMAIN code \ omit |-> code[k]]

KeySources == {<<>>, <<"fluid">>}

KeyTemplates ==
    {[cls |-> "Eq", dest |-> "fluid", sources |-> s, code |-> Without(FullCode, omit)] :
       s \in KeySources, omit \in SUBSET FragmentKeys}

InitKeys == InitWith(InputsOf(KeyTemplates, MaxKeyEqs, "flat"), {Chars_CubicSpline})

SpecKeys == InitKeys /\ [][Next]_vars

\* The bundle code with every absent fragment key present and empty.
WithEmpty(code) == [k \in FragmentKeys |-> IF Has(code, k) THEN code[k] ELSE <<>>]

\* The input with every absent fragment key present and empty.
Completed(eqs) ==
    [i \in DOMAIN eqs |-> [eqs[i] EXCEPT !.code = WithEmpty(eqs[i].code)]]

\* What generate writes for the input with the absent keys present and empty.
CompletedOutput ==
    LET egroups == check_equations(Completed(equations)).value
    IN  generate(egroups, [i \in DOMAIN egroups |-> _make_group(egroups[i])], <<>>)

\* C6 as claimed: whatever subset of the fragment keys an equation's bundle
\* leaves out, generate completes without error and writes the text it
\* writes when those keys are present with empty values.
C6_AsClaimed ==
    GenerateDone =>
        /\ pc = "generated"
        /\ CompletedOutput.raised = NoError
        /\ fp = CompletedOutput.fp

-----------------------------------------------------------------------------
(* Per-neighbor fragments built from the tokens KERNEL and GRADIENT, the   *)
(* identifier characters _ and S, and blanks; kernel classes CubicSpline   *)
(* and GRADIENTS.                                                          *)

Chars_GRADIENTS == GRADIENT \o <<"S">>

Pieces == {KERNEL, GRADIENT, <<"_">>, <<"S">>, <<" ">>}

LoopTexts == {Concat(ps) : ps \in Lists(Pieces, MaxPieces)}

LoopTemplates ==
    {[cls |-> "Eq", dest |-> "fluid", sources |-> <<"fluid">>,
      code |-> Bundle(<<>>, <<>>, <<>>, text, <<>>)] : text \in LoopTexts}

OneEquation == {<<e>> : e \in {Objects(<<t>>)[1] : t \in LoopTemplates}}

InitLoop == InitWith(OneEquation, {Chars_CubicSpline, Chars_GRADIENTS})

SpecLoop == InitLoop /\ [][Next]_vars

\* A token of these fragments ends at a blank.
Substituted(tok) ==
    IF tok = KERNEL THEN kernel \o Kernel
    ELSE IF tok = GRADIENT THEN kernel \o Gradient
    ELSE tok

RECURSIVE TokensSubstituted(_, _)
\* s with each token KERNEL or GRADIENT substituted; tok is the token read
\* so far.
TokensSubstituted(s, tok) ==
    IF s = <<>> THEN Substituted(tok)
    ELSE IF Head(s) = " "
         THEN Substituted(tok) \o <<" ">> \o TokensSubstituted(Tail(s), <<>>)
         ELSE TokensSubstituted(Tail(s), Append(tok, Head(s)))

\* C9 as claimed: the per-neighbor fragment emitted is the equation's
\* fragment with each token KERNEL replaced by <kernel class>Kernel, each
\* token GRADIENT by <kernel class>Gradient, and nothing else altered:
\* neither an identifier that contains those letters nor the text the
\* first replacement inserted.
C9_AsClaimed ==
    Generated =>
        \A i \in DOMAIN BodyOf(fp[1]) :
            BodyOf(fp[1])[i].code.kind = "loop" =>
                BodyOf(fp[1])[i].code.text
                    = TokensSubstituted(equations[1].code.loop, <<>>)

-----------------------------------------------------------------------------
(* The array-pointer declarations against the pointer-setup statements.    *)

\* The tokens the pointer-setup blocks of a body bind.
BoundTokens(body) ==
    UNION {{l.lhs : l \in BagToSet(body[i].code.lines)} :
             i \in {j \in DOMAIN body :
                      body[j].code.kind \in {"dest_array_setup", "src_array_setup"}}}

\* The tokens the array-pointer declarations of a body declare.
DeclaredTokens(body) ==
    UNION {{l.name : l \in BagToSet(body[i].code.lines)} :
             i \in {j \in DOMAIN body : body[j].code.kind = "array_declarations"}}

\* C11 as claimed: every array token that a destination or source
\* pointer-setup statement of the generated routine binds, the eight
\* locator-required ones included, has a 'cdef double*' declaration in the
\* array-pointer declarations at the top of the routine.
C11_AsClaimed ==
    Generated => BoundTokens(BodyOf(fp[1])) \subseteq DeclaredTokens(BodyOf(fp[1]))

-----------------------------------------------------------------------------
(* Groups of equations on two particle arrays, with no source, one source, *)
(* two sources, or one source named twice.                                 *)

GroupSources == {<<>>, <<"fluid">>, <<"solid", "fluid">>, <<"fluid", "fluid">>}

GroupTemplates ==
    [cls : {"Eq"}, dest : {"fluid", "solid"}, sources : GroupSources,
     code : {Bundle(<<>>, <<>>, <<>>, <<>>, <<>>)}]

InitGroup ==
    InitWith(InputsOf(GroupTemplates, MaxGroupEqs, "flat or grouped"), {Chars_CubicSpline})

SpecGroup == InitGroup /\ [][Next]_vars

\* The dest names of the equations, each at its first occurrence.
FirstOccurrences(eqs) ==
    LET firsts == SelectSeq([i \in DOMAIN eqs |-> i],
                            LAMBDA i : \A j \in 1..(i - 1) : eqs[j].dest # eqs[i].dest)
    IN  [k \in DOMAIN firsts |-> eqs[firsts[k]].dest]

\* sources[s] of a defaultdict(list): the empty list for a key never set.
ListAt(sources, s) == IF s \in DOMAIN sources THEN sources[s] ELSE <<>>

\* The equations, each once for every occurrence of s in its sources.
PerOccurrence(eqs, s) ==
    Concat([i \in DOMAIN eqs |->
              LET occ == SelectSeq(eqs[i].sources, LAMBDA x : x = s)
              IN  [j \in DOMAIN occ |-> eqs[i]]])

SourceNames == {"fluid", "solid"}

\* C12 as claimed: for every group the keys of _make_group's mapping are
\* the distinct dest names in first-occurrence order, and the list at
\* [d][s] is exactly the group's equations whose sources contain s, in
\* group order, whatever their dest.
C12_AsClaimed ==
    Constructed =>
        \A g \in DOMAIN groups :
            LET eqs == equation_groups[g].equations
            IN  /\ groups[g].keys = FirstOccurrences(eqs)
                /\ \A d \in Range(groups[g].keys) : \A s \in SourceNames :
                       ListAt(groups[g].map[d], s) = ActiveOn(eqs, s)

\* C12: for every group the keys of _make_group's mapping are the distinct
\* dest names in first-occurrence order, and the list at [d][s] holds the
\* group's equations in group order, whatever their dest, each once for
\* every occurrence of s in its sources: once when the sources are
\* distinct, twice when an equation names s twice.
C12_Theorem ==
    Constructed =>
        \A g \in DOMAIN groups :
            LET eqs == equation_groups[g].equations
            IN  /\ groups[g].keys = FirstOccurrences(eqs)
                /\ DOMAIN groups[g].map = Range(groups[g].keys)
                /\ \A d \in Range(groups[g].keys) : \A s \in SourceNames :
                       ListAt(groups[g].map[d], s) = PerOccurrence(eqs, s)

\* One group of two equations with the dests solid and fluid, both on the
\* source fluid: the keys are solid, fluid, and under solid the list of
\* fluid holds both equations, the one of dest fluid too.
C12_Witness ==
    /\ pc = "constructed"
    /\ Len(groups) = 1
    /\ groups[1].keys = <<"solid", "fluid">>
    /\ Len(equation_groups[1].equations) = 2
    /\ equation_groups[1].equations[2].dest = "fluid"
    /\ \A i \in 1..2 : equation_groups[1].equations[i].sources = <<"fluid">>
    /\ groups[1].map["solid"]["fluid"] = equation_groups[1].equations

-----------------------------------------------------------------------------
(* The indentation counter of src during _get_body, and the rendering.     *)

\* The calls _get_body makes on src, for the groups of the state.
CallsOnSrc == executed(body_statements(equation_groups, groups)).calls

\* self.level after each number of calls, from none to all of them.
LevelsOf(calls) == [k \in 0..Len(calls) |-> level_after(SubSeq(calls, 1, k))]

\* The positions of the add calls.
AddsOf(calls) ==
    SelectSeq([i \in DOMAIN calls |-> i], LAMBDA i : calls[i].call = "add")

HeaderKinds ==
    {"# Group", "# Destination", "# Source", "dest_array_setup",
     "src_array_setup", "locator_setup"}

\* The counter is never negative and has the level of what is recorded.
Balanced(calls, level) ==
    /\ \A k \in 0..Len(calls) : level[k] >= 0
    /\ \A k \in DOMAIN calls :
           calls[k].call = "add" =>
               LET kind == calls[k].code.kind
               IN  /\ kind \in HeaderKinds => level[k - 1] = 2
                   /\ kind \in {"initialization", "post"} => level[k - 1] = 3
                   /\ kind = "loop" => level[k - 1] = 4
                   /\ kind = "# Source done" => level[k] = 2

\* Every block is rendered at the level of the counter when it was added.
RenderedAsRecorded(calls, level, adds, body) ==
    /\ Len(body) = Len(adds)
    /\ \A i \in DOMAIN adds :
           /\ body[i].code = calls[adds[i]].code
           /\ body[i].indent = 4 * level[adds[i] - 1]

\* C13: during _get_body the indentation counter is never negative; it is
\* 2 when a group, destination or source header, a pointer-setup block or
\* the locator setup is recorded, 3 when an initialization or finalization
\* fragment is recorded, 4 when a per-neighbor fragment is recorded, and 2
\* again after every source block; and get renders each block with 4
\* spaces per level of the counter at the time the block was added,
\* whatever indent and dedent calls followed.
C13_Theorem ==
    Generated =>
        LET calls == CallsOnSrc
            level == LevelsOf(calls)
            adds  == AddsOf(calls)
        IN  /\ Balanced(calls, level)
            /\ RenderedAsRecorded(calls, level, adds, BodyOf(fp[1]))

\* Two groups were generated: a per-neighbor fragment was rendered with 16
\* spaces, a finalization fragment after it with 12, and the header of the
\* second group, added after the dedents, with 8.
C13_Witness ==
    /\ Generated
    /\ \E i, j, k \in DOMAIN BodyOf(fp[1]) :
           /\ i < j /\ j < k
           /\ BodyOf(fp[1])[i].code.kind = "loop"
           /\ BodyOf(fp[1])[i].indent = 16
           /\ BodyOf(fp[1])[j].code.kind = "post"
           /\ BodyOf(fp[1])[j].indent = 12
           /\ BodyOf(fp[1])[k].code.kind = "# Group"
           /\ BodyOf(fp[1])[k].code.g_idx = 1
           /\ BodyOf(fp[1])[k].indent = 8
=============================================================================
